---- MODULE Spec2Model ----
(***************************************************************************)
(* A model of netrc-rs (src/src/lib.rs): the Tokens cursor over one line,  *)
(* the Lexer over a line-buffered source, and the entry dispatcher of      *)
(* Netrc::parse.  Text is a sequence of characters (one-character          *)
(* strings); an Option is a sequence of length 0 (None) or 1 (Some).       *)
(***************************************************************************)
EXTENDS Integers, Sequences, FiniteSets, TLC

\* ------------------------------------------------------------------ bounds

\* The longest input, in physical lines, the source hands out.
MaxLines == 4

\* The longest line, in characters, handed to Tokens::new on its own.
MaxLineChars == 4

\* The largest value of a u16 (Machine.port).
U16Max == 65535

\* F applied to the value of v: a local variable v of the code, computed
\* once and then used by name.
With(v, F(_)) == CHOOSE y \in {F(x) : x \in {v}} : TRUE

\* ------------------------------------------------------------------- text

Sp == <<" ">>
NL == <<"\n">>
Tab == <<"\t">>

KwMachine  == <<"m", "a", "c", "h", "i", "n", "e">>
KwDefault  == <<"d", "e", "f", "a", "u", "l", "t">>
KwLogin    == <<"l", "o", "g", "i", "n">>
KwPassword == <<"p", "a", "s", "s", "w", "o", "r", "d">>
KwAccount  == <<"a", "c", "c", "o", "u", "n", "t">>
KwPort     == <<"p", "o", "r", "t">>
KwMacdef   == <<"m", "a", "c", "d", "e", "f">>

FieldKeywords == {KwLogin, KwPassword, KwAccount, KwPort}

Keywords == {KwMachine, KwDefault, KwMacdef} \cup FieldKeywords

\* char::is_whitespace, on the characters the model uses.
IsWhitespace(c) == c \in {" ", "\t", "\n", "\r", "U+00A0", "U+3000"}

\* The number of bytes of a character in a String (UTF-8).
Width(c) == IF c \in {"U+00E9", "U+00A0"} THEN 2 ELSE IF c = "U+3000" THEN 3 ELSE 1

\* str::len: the length of a String in bytes.
RECURSIVE ByteLen(_)
ByteLen(s) == IF s = <<>> THEN 0 ELSE Width(Head(s)) + ByteLen(Tail(s))

\* &s[b..]: the text from byte offset b; not ok (a panic) when b is past the
\* end or inside a character.
RECURSIVE SliceFrom(_, _)
SliceFrom(s, b) ==
    IF b = 0 THEN [ok |-> TRUE, s |-> s]
    ELSE IF s = <<>> \/ Width(Head(s)) > b THEN [ok |-> FALSE, s |-> <<>>]
    ELSE SliceFrom(Tail(s), b - Width(Head(s)))

\* chars().take_while(|c| c.is_whitespace()): the characters it yields.
RECURSIVE TakeWhileWs(_)
TakeWhileWs(s) ==
    IF s # <<>> /\ IsWhitespace(Head(s))
    THEN <<Head(s)>> \o TakeWhileWs(Tail(s)) ELSE <<>>

\* chars().take_while(|c| !c.is_whitespace()): the characters it yields.
RECURSIVE TakeWhileNotWs(_)
TakeWhileNotWs(s) ==
    IF s # <<>> /\ ~IsWhitespace(Head(s))
    THEN <<Head(s)>> \o TakeWhileNotWs(Tail(s)) ELSE <<>>

\* ----------------------------------------------------------------- Tokens

\* A slip: a line that begins with whitespace is taken for an empty one.
TokensNewDropsIndented(buf) ==
    IF buf # <<>> /\ IsWhitespace(buf[1])
    THEN [buf |-> <<>>, cur |-> 0] ELSE [buf |-> buf, cur |-> 0]

TokensNew(buf) == [buf |-> buf, cur |-> 0]

TokensEmpty == TokensNew(<<>>)

TokensRemaining(t) == SliceFrom(t.buf, t.cur)

\* Tokens::next: cur advances by one per character; the result is
\* [panic, word (an Option), t (the Tokens afterwards)].
TokensNext(t) ==
    With(TokensRemaining(t), LAMBDA r1 :
      IF ~r1.ok THEN [panic |-> TRUE, word |-> <<>>, t |-> t]
      ELSE With([t EXCEPT !.cur = t.cur + Len(TakeWhileWs(r1.s))], LAMBDA t1 :
        IF t1.cur < ByteLen(t.buf)
        THEN With(TokensRemaining(t1), LAMBDA r2 :
               IF ~r2.ok THEN [panic |-> TRUE, word |-> <<>>, t |-> t1]
               ELSE With(TakeWhileNotWs(r2.s), LAMBDA s :
                      [panic |-> FALSE, word |-> <<s>>,
                       t |-> [t1 EXCEPT !.cur = t1.cur + Len(s)]]))
        ELSE [panic |-> FALSE, word |-> <<>>, t |-> t1]))

\* ------------------------------------------------------------ port.parse()

DigitValue(c) ==
    CASE c = "0" -> 0 [] c = "1" -> 1 [] c = "2" -> 2 [] c = "3" -> 3
      [] c = "4" -> 4 [] c = "5" -> 5 [] c = "6" -> 6 [] c = "7" -> 7
      [] c = "8" -> 8 [] c = "9" -> 9 [] OTHER -> -1

\* A slip: the digits accumulated with wrapping arithmetic.
RECURSIVE AccumulateU16Wrapping(_, _)
AccumulateU16Wrapping(acc, s) ==
    IF s = <<>> THEN acc
    ELSE IF DigitValue(Head(s)) < 0 THEN -1
    ELSE AccumulateU16Wrapping((acc * 10 + DigitValue(Head(s))) % (U16Max + 1), Tail(s))

\* The digits of a u16 accumulated left to right with checked arithmetic;
\* -1 is an error (an invalid digit, or an overflow).
RECURSIVE AccumulateU16(_, _)
AccumulateU16(acc, s) ==
    IF s = <<>> THEN acc
    ELSE IF DigitValue(Head(s)) < 0 THEN -1
    ELSE IF acc * 10 + DigitValue(Head(s)) > U16Max THEN -1
    ELSE AccumulateU16(acc * 10 + DigitValue(Head(s)), Tail(s))

\* str::parse::<u16>: an Option, None for Err.  A leading "+" is accepted,
\* a "-" is not.
ParseU16(w) ==
    LET digits == IF w # <<>> /\ Head(w) = "+" THEN Tail(w) ELSE w
        v      == IF digits = <<>> THEN -1 ELSE AccumulateU16(0, digits)
    IN IF v < 0 THEN <<>> ELSE <<v>>

\* ------------------------------------------------------------- data model

\* Machine::default()
DefaultMachine == [login |-> <<>>, password |-> <<>>, account |-> <<>>, port |-> <<>>]

\* Netrc::default()
DefaultNetrc == [hosts |-> <<>>, default |-> <<>>, macros |-> <<>>]

Host(name, m) == [name |-> name, machine |-> m]

Macro(name, body) == [name |-> name, body |-> body]

RefNothing == [tag |-> "Nothing", n |-> 0]
RefDefault == [tag |-> "Default", n |-> 0]
RefHost(n) == [tag |-> "Host", n |-> n]

\* ErrorKind::Parse(format!(fmt, w), lnum): the message is kept as the format
\* string and the word put into it.  In fmt, {} is the place of the word and
\* {q} the place of the word written between a grave accent and an apostrophe.
ParseError(fmt, w, l) == [kind |-> "Parse", fmt |-> fmt, arg |-> w, lnum |-> l]

\* A read error of the source, passed on unchanged.
IoError == [kind |-> "Io", fmt |-> "", arg |-> <<>>, lnum |-> 0]

\* Netrc::parse has not returned, has returned Ok(netrc), has panicked.
NoResult == [kind |-> "None", fmt |-> "", arg |-> <<>>, lnum |-> 0]
OkResult == [kind |-> "Ok", fmt |-> "", arg |-> <<>>, lnum |-> 0]
Panicked == [kind |-> "Panic", fmt |-> "", arg |-> <<>>, lnum |-> 0]

\* ------------------------------------------------------------- the source

\* The physical lines a source is made of.  A line without a terminator can
\* only be the last one.
Lines ==
    { KwMachine \o Sp \o <<"h">> \o NL,
      Sp \o KwLogin \o Sp \o <<"l">> \o Tab \o KwPassword \o Sp \o Sp \o <<"p">> \o NL,
      KwPort \o Sp \o <<"6", "5", "5", "3", "5">> \o Sp \o NL,
      KwPort \o NL,
      <<"6", "5", "5", "3", "5">> \o NL,
      <<"6", "5", "5", "3", "6">> \o NL,
      NL,
      Sp \o NL,
      KwDefault \o Tab \o KwAccount \o Sp \o <<"a">> \o NL,
      KwMacdef \o Sp \o <<"m">> \o Sp \o <<"x">> \o NL,
      KwMachine \o NL,
      KwMachine \o Sp \o KwDefault \o Sp \o KwLogin \o Sp \o KwMachine \o NL,
      KwLogin }

Terminated(l) == l # <<>> /\ l[Len(l)] = "\n"

VARIABLES
    netrc,            \* the aggregate under construction
    current_machine,  \* the MachineRef of Netrc::parse
    line,             \* Lexer.line, a Tokens
    lnum,             \* Lexer.lnum
    input,            \* the lines Lexer.buf has handed out so far
    eof,              \* Lexer.buf is exhausted
    pc,               \* where the parse stands
    item,             \* the word parse_entry dispatches on
    arg,              \* the word next_word_or_err returned to parse_entry
    name,             \* the macro name of the macdef arm
    cmds,             \* the text next_subcommands has captured
    result,           \* what Netrc::parse returned
    words             \* the words Tokens::next has returned so far

vars == <<netrc, current_machine, line, lnum, input, eof, pc, item, arg, name,
          cmds, result, words>>

\* BufRead::read_line on the source: the lines it may return next; <<>> is
\* a read of zero bytes.
ReadOutcomes ==
    IF eof \/ Len(input) >= MaxLines THEN {<<>>} ELSE Lines \cup {<<>>}

\* The source after a read that returned r.
SourceAfter(r) ==
    /\ input' = IF r = <<>> THEN input ELSE Append(input, r)
    /\ eof' = (eof \/ ~Terminated(r))

\* Slips: every read counts as a line; a blank line does not count.
ReadLineLnumAlways(l, n) == l + 1
ReadLineLnumSkipsBlank(l, n) == IF n > 1 THEN l + 1 ELSE l

\* Lexer::read_line: lnum after a read of n bytes.
ReadLineLnum(l, n) == IF n > 0 THEN l + 1 ELSE l

\* Lexer::new, and the locals of Netrc::parse
Init ==
    /\ netrc = DefaultNetrc
    /\ current_machine = RefNothing
    /\ line = TokensEmpty
    /\ lnum = 0
    /\ input = <<>>
    /\ eof = FALSE
    /\ pc = "parse"
    /\ item = <<>>
    /\ arg = <<>>
    /\ name = <<>>
    /\ cmds = <<>>
    /\ result = NoResult
    /\ words = <<>>

\* ------------------------------------------------------------ parse_entry

\* A slip: with no current machine the lookup falls back to the default.
FindMachineFallsBack(n, ref) ==
    CASE ref.tag = "Nothing" -> n.default
      [] ref.tag = "Default" -> n.default
      [] ref.tag = "Host"    -> <<n.hosts[ref.n + 1].machine>>

\* Netrc::find_machine: an Option, the Machine the reference names.
FindMachine(n, ref) ==
    CASE ref.tag = "Nothing" -> <<>>
      [] ref.tag = "Default" -> n.default
      [] ref.tag = "Host"    -> <<n.hosts[ref.n + 1].machine>>

\* A slip: a write for the default lands in the host appended last.
WithMachineDefaultIntoHost(n, ref, m) ==
    CASE ref.tag = "Default" /\ n.hosts # <<>> ->
             [n EXCEPT !.hosts[Len(n.hosts)].machine = m]
      [] ref.tag = "Default" /\ n.hosts = <<>> -> [n EXCEPT !.default = <<m>>]
      [] ref.tag = "Host"    -> [n EXCEPT !.hosts[ref.n + 1].machine = m]
      [] OTHER               -> n

\* The aggregate after a write of m through the &mut Machine that
\* find_machine returned for ref.
WithMachine(n, ref, m) ==
    CASE ref.tag = "Default" -> [n EXCEPT !.default = <<m>>]
      [] ref.tag = "Host"    -> [n EXCEPT !.hosts[ref.n + 1].machine = m]
      [] OTHER               -> n

\* A slip: the reference of a machine entry is the length of hosts after
\* the push, not the index of the host pushed.
ArmMachineOffByOne(n, host_name) ==
    [netrc |-> [n EXCEPT !.hosts = Append(n.hosts, Host(host_name, DefaultMachine))],
     ref   |-> RefHost(Len(n.hosts) + 1)]

\* A slip: a name that spells default is taken for the keyword.
ArmMachineDispatchesName(n, host_name) ==
    IF host_name = KwDefault
    THEN [netrc |-> [n EXCEPT !.default = <<DefaultMachine>>], ref |-> RefDefault]
    ELSE [netrc |-> [n EXCEPT !.hosts = Append(n.hosts, Host(host_name, DefaultMachine))],
          ref   |-> RefHost(Len(n.hosts))]

\* A slip: a machine entry whose name is already listed selects that host
\* instead of adding one.
ArmMachineMergesEqualNames(n, host_name) ==
    IF \E i \in 1..Len(n.hosts) : n.hosts[i].name = host_name
    THEN [netrc |-> n,
          ref   |-> RefHost((CHOOSE i \in 1..Len(n.hosts) :
                                n.hosts[i].name = host_name) - 1)]
    ELSE [netrc |-> [n EXCEPT !.hosts = Append(n.hosts, Host(host_name, DefaultMachine))],
          ref   |-> RefHost(Len(n.hosts))]

\* The "machine" arm: the aggregate and the reference it returns.
ArmMachine(n, host_name) ==
    LET hosts == Append(n.hosts, Host(host_name, DefaultMachine)) IN
    [netrc |-> [n EXCEPT !.hosts = hosts], ref |-> RefHost(Len(hosts) - 1)]

\* A slip: a default entry keeps the default Machine that is already there.
ArmDefaultKeepsRecord(n) ==
    [netrc |-> IF n.default # <<>> THEN n ELSE [n EXCEPT !.default = <<DefaultMachine>>],
     ref   |-> RefDefault]

\* The "default" arm.
ArmDefault(n) ==
    [netrc |-> [n EXCEPT !.default = <<DefaultMachine>>], ref |-> RefDefault]

\* The bodies of the "login", "password" and "account" arms.
ArmLogin(m, w) == [m EXCEPT !.login = w]

\* A slip: the password arm stores the login's value.
ArmPasswordTakesLogin(m, w) == [m EXCEPT !.password = <<m.login>>]

ArmPassword(m, w) == [m EXCEPT !.password = <<w>>]
ArmAccount(m, w) == [m EXCEPT !.account = <<w>>]

\* The body of the "port" arm: the Machine when the word parses.
ArmPort(m, w) == [m EXCEPT !.port = ParseU16(w)]

\* A slip: the macdef arm hands back the reference it was given.
ArmMacdefKeepsTarget(n, ref, macro_name, body) ==
    [netrc |-> [n EXCEPT !.macros = Append(n.macros, Macro(macro_name, body))],
     ref   |-> ref]

\* The "macdef" arm once the body is captured.
ArmMacdef(n, ref, macro_name, body) ==
    [netrc |-> [n EXCEPT !.macros = Append(n.macros, Macro(macro_name, body))],
     ref   |-> RefNothing]

\* with_current_machine!, None branch
NoMachineError(entry, l) == ParseError("No machine defined for {}", entry, l)

\* A slip: the message names the keyword, not the word that failed to parse.
PortErrorNamesKeyword(w, l) == ParseError("Unable to parse port number {q}", KwPort, l)

\* The "port" arm, Err branch
PortError(w, l) == ParseError("Unable to parse port number {q}", w, l)

\* The last arm of the match
UnknownEntryError(w, l) == ParseError("Unknown entry {q}", w, l)

\* Lexer::next_word_or_err, None branch
EofError(l) == ParseError("Unexpected end of file", <<>>, l)

\* A slip: only the end of the input ends a macro body.
SubcommandsDoneAtEofOnly(n) == n = 0

\* A slip: the macro body ends with the first line read for it.
SubcommandsDoneAfterOneLine(n) == TRUE

\* A slip: only a line of one byte ends a macro body.
SubcommandsDoneOnBlankOnly(n) == n = 1

\* next_subcommands returns after a read of n bytes.
SubcommandsDone(n) == n \in 0..1

\* ---------------------------------------------------------------- actions

\* A slip: the error is noted and the dispatch loop goes on.
FailAndGoOn(e) ==
    /\ pc' = "parse"
    /\ result' = e

\* The ? of Netrc::parse and of parse_entry: the error e is what parse returns.
Fail(e) ==
    /\ pc' = IF e.kind = "Panic" THEN "panic" ELSE "err"
    /\ result' = e

\* One turn of the loop of Lexer::next_word in which the line still holds a
\* word: the word goes to the dispatch loop of Netrc::parse (pc = "parse")
\* or to the arm of parse_entry that asked for it (pc = "arg").
NextWord ==
    /\ pc \in {"parse", "arg"}
    /\ \E r \in {TokensNext(line)} :
       /\ r.panic \/ r.word # <<>>
       /\ line' = r.t
       /\ IF r.panic
          THEN Fail(Panicked) /\ UNCHANGED <<item, arg, words>>
          ELSE /\ pc' = IF pc = "parse" THEN "entry" ELSE "body"
               /\ words' = Append(words, r.word[1])
               /\ item' = IF pc = "parse" THEN r.word[1] ELSE item
               /\ arg' = IF pc = "parse" THEN arg ELSE r.word[1]
               /\ UNCHANGED result
    /\ UNCHANGED <<netrc, current_machine, lnum, input, eof, name, cmds>>

\* One turn of the loop of Lexer::next_word in which the line has no word
\* left: Lexer::refill reads the next line.  A read of zero bytes ends
\* Netrc::parse with Ok (pc = "parse") or with EofError (pc = "arg").
Refill ==
    /\ pc \in {"parse", "arg"}
    /\ \E r \in {TokensNext(line)} : ~r.panic /\ r.word = <<>>
    /\ \E l \in ReadOutcomes :
         /\ SourceAfter(l)
         /\ lnum' = ReadLineLnum(lnum, ByteLen(l))
         /\ line' = TokensNew(l)
         /\ IF ByteLen(l) = 0
            THEN IF pc = "parse"
                 THEN pc' = "done" /\ result' = OkResult
                 ELSE Fail(EofError(lnum'))
            ELSE UNCHANGED <<pc, result>>
    /\ UNCHANGED <<netrc, current_machine, item, arg, name, cmds, words>>

\* The source fails a read made by refill or by next_subcommands: the error
\* is returned as it is.
ReadError ==
    /\ pc \in {"parse", "arg", "subcommands"}
    /\ ~eof
    /\ \E r \in {TokensNext(line)} :
         /\ pc = "subcommands" \/ (~r.panic /\ r.word = <<>>)
         /\ line' = IF pc = "subcommands" THEN line ELSE r.t
    /\ Fail(IoError)
    /\ UNCHANGED <<netrc, current_machine, lnum, input, eof, item, arg, name, cmds,
                   words>>

\* Netrc::parse_entry up to its first call of the lexer: the match on item
\* and, for a field keyword, the lookup of with_current_machine!.
ParseEntry ==
    /\ pc = "entry"
    /\ IF item = KwDefault
       THEN /\ netrc' = ArmDefault(netrc).netrc
            /\ current_machine' = ArmDefault(netrc).ref
            /\ pc' = "parse"
            /\ UNCHANGED result
       ELSE /\ UNCHANGED <<netrc, current_machine>>
            /\ IF item \in {KwMachine, KwMacdef}
               THEN pc' = "arg" /\ UNCHANGED result
               ELSE IF item \in FieldKeywords
               THEN IF FindMachine(netrc, current_machine) = <<>>
                    THEN Fail(NoMachineError(item, lnum))
                    ELSE pc' = "arg" /\ UNCHANGED result
               ELSE Fail(UnknownEntryError(item, lnum))
    /\ UNCHANGED <<line, lnum, input, eof, item, arg, name, cmds, words>>

\* The rest of an arm of parse_entry, once next_word_or_err has returned arg.
EntryBody ==
    /\ pc = "body"
    /\ IF item = KwMachine
       THEN /\ netrc' = ArmMachine(netrc, arg).netrc
            /\ current_machine' = ArmMachine(netrc, arg).ref
            /\ pc' = "parse"
            /\ UNCHANGED <<line, name, cmds, result>>
       ELSE IF item = KwMacdef
       THEN \* the first two statements of next_subcommands
            LET rest == TokensRemaining(line) IN
            /\ name' = arg
            /\ UNCHANGED <<netrc, current_machine>>
            /\ IF rest.ok
               THEN /\ cmds' = rest.s
                    /\ line' = TokensEmpty
                    /\ pc' = "subcommands"
                    /\ UNCHANGED result
               ELSE Fail(Panicked) /\ UNCHANGED <<cmds, line>>
       ELSE LET m == FindMachine(netrc, current_machine)[1] IN
            /\ UNCHANGED <<current_machine, line, name, cmds>>
            /\ IF item = KwPort /\ ParseU16(arg) = <<>>
               THEN Fail(PortError(arg, lnum)) /\ UNCHANGED netrc
               ELSE /\ netrc' = WithMachine(netrc, current_machine,
                                   CASE item = KwLogin    -> ArmLogin(m, arg)
                                     [] item = KwPassword -> ArmPassword(m, arg)
                                     [] item = KwAccount  -> ArmAccount(m, arg)
                                     [] item = KwPort     -> ArmPort(m, arg))
                    /\ pc' = "parse"
                    /\ UNCHANGED result
    /\ UNCHANGED <<lnum, input, eof, item, arg, words>>

\* One turn of the loop of Lexer::next_subcommands: a line is read onto
\* cmds; after a read of at most one byte the macdef arm finishes.
Subcommands ==
    /\ pc = "subcommands"
    /\ \E l \in ReadOutcomes :
         /\ SourceAfter(l)
         /\ lnum' = ReadLineLnum(lnum, ByteLen(l))
         /\ cmds' = cmds \o l
         /\ IF SubcommandsDone(ByteLen(l))
            THEN /\ netrc' = ArmMacdef(netrc, current_machine, name, cmds').netrc
                 /\ current_machine' = ArmMacdef(netrc, current_machine, name, cmds').ref
                 /\ pc' = "parse"
            ELSE UNCHANGED <<netrc, current_machine, pc>>
    /\ UNCHANGED <<line, item, arg, name, result, words>>

Next ==
    \/ NextWord
    \/ Refill
    \/ ReadError
    \/ ParseEntry
    \/ EntryBody
    \/ Subcommands

Spec == Init /\ [][Next]_vars

\* ------------------------------------------------- the input, as a text

\* The lines of ls written one after the other.
RECURSIVE Flat(_)
Flat(ls) == IF ls = <<>> THEN <<>> ELSE Head(ls) \o Flat(Tail(ls))

\* The words of a text from position i on: its maximal runs of characters
\* that are not whitespace, from left to right.
RECURSIVE WordsFrom(_, _)
WordsFrom(t, i) ==
    IF i > Len(t) THEN <<>>
    ELSE IF IsWhitespace(t[i]) THEN WordsFrom(t, i + 1)
    ELSE LET j == CHOOSE j \in i..Len(t) :
                    /\ \A k \in i..j : ~IsWhitespace(t[k])
                    /\ j = Len(t) \/ IsWhitespace(t[j + 1])
         IN <<SubSeq(t, i, j)>> \o WordsFrom(t, j + 1)

WordsOf(t) == WordsFrom(t, 1)

\* The words of all the lines read so far.
InputWords == WordsOf(Flat(input))

DigitChars == <<"0", "1", "2", "3", "4", "5", "6", "7", "8", "9">>

IsNumeral(w) == w # <<>> /\ \A i \in 1..Len(w) : \E d \in 1..10 : w[i] = DigitChars[d]

\* The integer a numeral denotes, with no limit on its size.
RECURSIVE NumeralValue(_)
NumeralValue(w) ==
    IF w = <<>> THEN 0
    ELSE NumeralValue(SubSeq(w, 1, Len(w) - 1)) * 10
         + (CHOOSE d \in 0..9 : w[Len(w)] = DigitChars[d + 1])

\* A word that denotes a port number.
DenotesPort(w) == IsNumeral(w) /\ NumeralValue(w) \in 0..U16Max

\* The number of the last line read that holds a word (0 when none does).
LastLineWithWord ==
    LET S == {i \in 1..Len(input) : WordsOf(input[i]) # <<>>}
    IN IF S = {} THEN 0 ELSE CHOOSE i \in S : \A j \in S : j <= i

\* The word w stands on the line l.
OnLine(w, l) == \E i \in 1..Len(WordsOf(l)) : WordsOf(l)[i] = w

\* The number of the last line before line n that holds a word (0: none).
LastLineWithWordBefore(n) ==
    LET S == {i \in 1..(n - 1) : WordsOf(input[i]) # <<>>}
    IN IF S = {} THEN 0 ELSE CHOOSE i \in S : \A j \in S : j <= i

\* The line of the keyword whose argument is the word taken last from the
\* current line: the current line, unless that word is the first one on it.
KeywordLineOfArg ==
    IF Len(WordsOf(SubSeq(line.buf, 1, line.cur))) >= 2
    THEN Len(input) ELSE LastLineWithWordBefore(Len(input))

\* The Machine m with the field of the keyword kw set from the word w.
FieldSet(m, kw, w) ==
    CASE kw = KwLogin    -> [m EXCEPT !.login = w]
      [] kw = KwPassword -> [m EXCEPT !.password = <<w>>]
      [] kw = KwAccount  -> [m EXCEPT !.account = <<w>>]
      [] kw = KwPort     -> [m EXCEPT !.port = <<NumeralValue(w)>>]

\* Every Machine of the aggregate.
AllMachines ==
    {netrc.hosts[i].machine : i \in 1..Len(netrc.hosts)}
    \cup {netrc.default[i] : i \in 1..Len(netrc.default)}

\* ----------------------------------------------------------------- claims

\* The word sequence machine h login l password p port n, n a port number;
\* and a beginning of such a sequence.
SimpleForm(ws) ==
    /\ Len(ws) = 8
    /\ ws[1] = KwMachine /\ ws[3] = KwLogin /\ ws[5] = KwPassword /\ ws[7] = KwPort
    /\ DenotesPort(ws[8])

SimplePrefix(ws) ==
    /\ Len(ws) <= 8
    /\ Len(ws) >= 1 => ws[1] = KwMachine
    /\ Len(ws) >= 3 => ws[3] = KwLogin
    /\ Len(ws) >= 5 => ws[5] = KwPassword
    /\ Len(ws) >= 7 => ws[7] = KwPort
    /\ Len(ws) >= 8 => DenotesPort(ws[8])

\* C1: an input whose words are exactly machine h login l password p port n
\* (0 <= n <= 65535), however they are spread over lines, parses to Ok with
\* one host (h, login l, password p, no account, port n), no default and no
\* macro; the parse fails on no input that is, or can still become, of this
\* form.
C1_ParseSimple ==
    LET ws == InputWords IN
    /\ (pc = "done" /\ SimpleForm(ws)) =>
          /\ result = OkResult
          /\ netrc = [hosts |-> <<Host(ws[2], [login |-> ws[4],
                                                password |-> <<ws[6]>>,
                                                account |-> <<>>,
                                                port |-> <<NumeralValue(ws[8])>>])>>,
                      default |-> <<>>,
                      macros |-> <<>>]
    /\ (result.kind \in {"Parse", "Panic"} /\ SimplePrefix(ws)) =>
          (eof /\ ~SimpleForm(ws))

\* A simple input parsed to the end, its port number on a line of its own.
C1_Witness ==
    /\ pc = "done"
    /\ SimpleForm(InputWords)
    /\ Len(input) = 4
    /\ input[3] = KwPort \o NL

\* C2: a field keyword dispatched while the current target is none fails at
\* once with "No machine defined for <keyword>" and the number of the line
\* the keyword stands on (the last line read); no word or line is consumed
\* for it and the aggregate is left as it was.
C2_NoMachine ==
    [][(pc = "entry" /\ item \in FieldKeywords /\ current_machine = RefNothing) =>
          /\ pc' = "err"
          /\ result' = ParseError("No machine defined for {}", item, Len(input))
          /\ OnLine(item, input[Len(input)])
          /\ UNCHANGED <<line, lnum, input, eof, netrc>>]_vars

\* "No machine defined for login", login being the last word of the input
\* and standing after a macro.
C2_Witness ==
    /\ pc = "err"
    /\ result.fmt = "No machine defined for {}"
    /\ result.arg = KwLogin
    /\ netrc.macros # <<>>
    /\ input[Len(input)] = KwLogin

\* The word nm stands on the line l and ends at position j of it.
NameEndsAt(l, j, nm) ==
    /\ nm # <<>>
    /\ Len(nm) <= j /\ j <= Len(l)
    /\ SubSeq(l, j - Len(nm) + 1, j) = nm
    /\ j = Len(l) \/ IsWhitespace(l[j + 1])
    /\ j = Len(nm) \/ IsWhitespace(l[j - Len(nm)])

\* The blank lines among the lines read after line k.
BlankAfter(k) == {e \in (k + 1)..Len(input) : input[e] = NL}

\* The line the body of a macro named on line k ends with: the first blank
\* line after line k, or the last line read when there is none.
BodyEnd(k) ==
    IF BlankAfter(k) = {} THEN Len(input)
    ELSE CHOOSE e \in BlankAfter(k) : \A f \in BlankAfter(k) : e <= f

\* The macros ms are, in this order, those of macdef blocks of the lines
\* read from line from on: each body is the text after the name on the
\* line of the name, then every later line whole, up to and with the first
\* blank line, or up to the end of the input.
RECURSIVE MacrosMatch(_, _)
MacrosMatch(ms, from) ==
    \/ ms = <<>>
    \/ /\ ms # <<>>
       /\ \E k \in from..Len(input) : \E j \in 1..Len(input[k]) :
            /\ NameEndsAt(input[k], j, ms[1].name)
            /\ ms[1].body = SubSeq(input[k], j + 1, Len(input[k]))
                            \o Flat(SubSeq(input, k + 1, BodyEnd(k)))
            /\ BlankAfter(k) = {} => eof
            /\ MacrosMatch(Tail(ms), BodyEnd(k) + 1)

\* C3: the body of every Macro is the raw text after the macro name on its
\* line followed by every later line, terminator included, up to and with
\* the first blank line, or up to the end of the input when there is none;
\* the Macros stand in input order, each one starting after the blank line
\* that ended the one before.
C3_MacroBody == MacrosMatch(netrc.macros, 1)

\* Two macdef blocks one after the other, the first ended by a blank line.
C3_Witness ==
    /\ pc = "done"
    /\ Len(netrc.macros) = 2
    /\ netrc.macros[1] = Macro(<<"m">>, Sp \o <<"x">> \o NL \o NL)
    /\ netrc.macros[2].body # netrc.macros[1].body

\* C4: when a macdef entry is done the current target is none, whatever it
\* was; it stays none until a machine or default entry; and a field keyword
\* dispatched meanwhile fails with "No machine defined for <keyword>" and
\* modifies no host.
C4_MacdefResetsTarget ==
    [][/\ (pc = "subcommands" /\ pc' = "parse") => current_machine' = RefNothing
       /\ (current_machine = RefNothing /\ current_machine' # RefNothing) =>
             \/ pc = "entry" /\ item = KwDefault
             \/ pc = "body" /\ item = KwMachine
       /\ (pc = "entry" /\ item \in FieldKeywords /\ current_machine = RefNothing) =>
             /\ pc' = "err"
             /\ result'.fmt = "No machine defined for {}"
             /\ result'.arg = item
             /\ netrc' = netrc]_vars

\* machine h, a macro ended by a blank line, then a field keyword: the
\* parse has failed and host h has no field set.
C4_Witness ==
    /\ pc = "err"
    /\ result.fmt = "No machine defined for {}"
    /\ input[1] = KwMachine \o Sp \o <<"h">> \o NL
    /\ netrc.hosts = <<Host(<<"h">>, DefaultMachine)>>
    /\ Len(netrc.macros) = 1
    /\ input[Len(input) - 1] = NL

\* C5: the default keyword makes the default Machine the current target
\* and leaves hosts alone; the target stays the default until a machine or
\* macdef entry; a field keyword dispatched meanwhile is accepted, sets
\* that field of the default Machine and leaves hosts unchanged.
C5_DefaultFields ==
    [][/\ (pc = "entry" /\ item = KwDefault) =>
             (current_machine' = RefDefault /\ netrc'.hosts = netrc.hosts)
       /\ (current_machine = RefDefault /\ current_machine' # RefDefault) =>
             \/ pc = "body" /\ item = KwMachine
             \/ pc = "subcommands"
       /\ (pc = "entry" /\ item \in FieldKeywords /\ current_machine = RefDefault) =>
             (pc' = "arg" /\ netrc' = netrc)
       /\ (pc = "body" /\ item \in FieldKeywords /\ current_machine = RefDefault) =>
             /\ netrc'.hosts = netrc.hosts
             /\ pc' = "parse" =>
                  netrc'.default = <<FieldSet(netrc.default[1], item, arg)>>]_vars

\* A host with fields, then default with the same field keywords after it.
C5_Witness ==
    /\ pc = "done"
    /\ netrc.hosts = <<Host(<<"h">>, [DefaultMachine EXCEPT !.login = <<"l">>,
                                                            !.password = << <<"p">> >>])>>
    /\ netrc.default = <<[DefaultMachine EXCEPT !.login = <<"l">>,
                                                !.password = << <<"p">> >>,
                                                !.account = << <<"a">> >>]>>

\* C6, as claimed: "Unexpected end of file" for a trailing field keyword
\* carries the number of the line the keyword stands on, blank lines after
\* it or not.
C6_EofAtKeywordLine ==
    (pc = "err" /\ result.fmt = "Unexpected end of file" /\ item \in FieldKeywords)
        => result.lnum = LastLineWithWord

\* C6, amended: when the lexer reaches the end of the input in search of
\* the argument of a field keyword, the parse fails with "Unexpected end of
\* file" and the number of the last line of the input.
C6_EofAtLastLine ==
    [][(pc = "arg" /\ item \in FieldKeywords /\ pc' \notin {"arg", "body"}) =>
          \/ result' = IoError
          \/ /\ pc' = "err"
             /\ eof'
             /\ result' = ParseError("Unexpected end of file", <<>>, Len(input'))]_vars

\* A trailing port keyword with lines after it, and the error's line number
\* beyond the line of the keyword.
C6_Witness ==
    /\ pc = "err"
    /\ result.fmt = "Unexpected end of file"
    /\ item = KwPort
    /\ result.lnum = Len(input)
    /\ result.lnum > LastLineWithWord

C8_UnknownEntry ==
    [][(pc = "entry" /\ item \notin Keywords) =>
          /\ pc' = "err"
          /\ result' = ParseError("Unknown entry {q}", item, Len(input))
          /\ OnLine(item, input[Len(input)])]_vars

\* An unknown word after a blank line, with a host as the current target.
C8_Witness ==
    /\ pc = "err"
    /\ result.fmt = "Unknown entry {q}"
    /\ current_machine.tag = "Host"
    /\ Len(input) >= 3
    /\ input[Len(input) - 1] = NL
    /\ result.lnum = Len(input)

\* C9: a port field is absent or within 0..65535; a port argument that
\* denotes a number in this range sets the field of the current target to
\* it, any other argument fails the parse and leaves the aggregate as it
\* was.
C9_PortRange ==
    /\ [](\A m \in AllMachines : m.port = <<>> \/ m.port[1] \in 0..U16Max)
    /\ [][(pc = "body" /\ item = KwPort) =>
             IF DenotesPort(arg)
             THEN /\ pc' = "parse"
                  /\ FindMachine(netrc', current_machine)[1].port = <<NumeralValue(arg)>>
             ELSE /\ pc' = "err"
                  /\ netrc' = netrc]_vars

\* port 65535 was stored, then port 65536 failed and the field kept 65535.
C9_Witness ==
    /\ pc = "err"
    /\ result.fmt = "Unable to parse port number {q}"
    /\ result.arg = <<"6", "5", "5", "3", "6">>
    /\ FindMachine(netrc, current_machine) # <<>>
    /\ FindMachine(netrc, current_machine)[1].port = <<U16Max>>

\* C10: the line counter is the number of reads that returned a line.
C10_LineCounter == lnum = Len(input)

\* The parse is over after four lines: a macdef line, a line and the blank
\* line taken into its body, and a line skipped in search of a word.
C10_Witness ==
    /\ pc = "done"
    /\ lnum = 4
    /\ Len(netrc.macros) = 1
    /\ input[3] = NL
    /\ input[4] = Sp \o NL

\* ------------------------------------------------------------------ C11

\* The step of the machine arm that has its name.
MachineStep == pc = "body" /\ item = KwMachine

\* C11: every dispatched machine keyword appends one host, named by its
\* argument and with no field set, behind the hosts already listed, also
\* when a host of that name is listed; no other step adds, removes or
\* reorders a host, and a step that sets a field while a host is the target
\* changes the last host only.
C11_OneHostPerMachine ==
    [][ /\ MachineStep =>
             /\ netrc'.hosts = Append(netrc.hosts, Host(arg, DefaultMachine))
             /\ current_machine' = RefHost(Len(netrc.hosts))
        /\ ~MachineStep =>
             /\ Len(netrc'.hosts) = Len(netrc.hosts)
             /\ \A i \in 1..Len(netrc.hosts) :
                    /\ netrc'.hosts[i].name = netrc.hosts[i].name
                    /\ netrc'.hosts[i] # netrc.hosts[i] =>
                           /\ i = Len(netrc.hosts)
                           /\ current_machine = RefHost(i - 1) ]_vars

\* Two machine entries of the same name, each followed by fields of its own.
C11_Witness ==
    /\ netrc.hosts =
         << Host(<<"h">>, [DefaultMachine EXCEPT !.login = <<"l">>,
                                                 !.password = << <<"p">> >>]),
            Host(<<"h">>, [DefaultMachine EXCEPT !.port = <<65535>>]) >>
    /\ current_machine = RefHost(1)

\* ------------------------------------------------------------------ C12

\* C12: the first error, of the parser or of the source, ends the run: once
\* Netrc::parse has a result no word is dispatched, no line is read and
\* nothing changes any more; the result is Ok exactly at the clean end and a
\* parse or read error exactly at the failed end.
C12_FirstErrorIsTerminal ==
    /\ [][result = NoResult]_vars
    /\ [](/\ result.kind \in {"None", "Ok", "Parse", "Io"}
          /\ result.kind = "Ok" <=> pc = "done"
          /\ result.kind \in {"Parse", "Io"} <=> pc = "err")

\* A parse error returned while the source still has lines to give and a
\* host is already listed in the aggregate.
C12_Witness ==
    /\ result.kind = "Parse"
    /\ pc = "err"
    /\ ~eof
    /\ Len(input) < MaxLines
    /\ netrc.hosts # <<>>

\* ------------------------------------------------------------------ C13

\* The one host of the aggregate, when the input was of the simple form and
\* parsed to the end, against the password it is to hold.
SimpleHostHas(pw) ==
    LET ws == InputWords IN
    (pc = "done" /\ SimpleForm(ws)) =>
       /\ Len(netrc.hosts) = 1
       /\ netrc.hosts[1].name = ws[2]
       /\ netrc.hosts[1].machine.login = ws[4]
       /\ netrc.hosts[1].machine.password = <<pw>>
       /\ netrc.hosts[1].machine.port = <<NumeralValue(ws[8])>>
       /\ netrc.default = <<>>

\* C13 as stated: for machine h login l password p port n the one host has
\* login l, password l (the value of the login) and port n, and there is no
\* default.
C13_PasswordIsLogin == SimpleHostHas(InputWords[4])

\* C13, amended: for machine h login l password p port n the one host has
\* login l, password p (the argument of the password keyword) and port n,
\* and there is no default.
C13_PasswordIsItsArgument == SimpleHostHas(InputWords[6])

\* A simple input of three lines parsed to the end, login and password
\* being different words.
C13_Witness ==
    /\ pc = "done"
    /\ SimpleForm(InputWords)
    /\ InputWords[4] # InputWords[6]
    /\ Len(input) = 3
    /\ netrc.hosts[1].machine.password = << <<"p">> >>

\* ------------------------------------------------- Tokens, on its own

\* The characters of the lines given to Tokens::new: letters, a space, a
\* letter of two bytes and a whitespace character of three bytes.
TokenChars == {"a", "b", " ", "U+00E9", "U+3000"}

\* The texts of n characters, and the lines given to Tokens::new.
RECURSIVE TextsOfLen(_)
TextsOfLen(n) ==
    IF n = 0 THEN {<<>>}
    ELSE {Append(t, c) : t \in TextsOfLen(n - 1), c \in TokenChars}

TokenLines == UNION {TextsOfLen(n) : n \in 0..MaxLineChars}

\* Tokens::new(buf) for a line buf, no call of next made yet.
InitTokens ==
    /\ line \in {TokensNew(buf) : buf \in TokenLines}
    /\ pc = "tokens"
    /\ words = <<>>
    /\ result = NoResult
    /\ netrc = DefaultNetrc
    /\ current_machine = RefNothing
    /\ lnum = 0
    /\ input = <<>>
    /\ eof = FALSE
    /\ item = <<>>
    /\ arg = <<>>
    /\ name = <<>>
    /\ cmds = <<>>

\* One call of Tokens::next: it panics, returns a word, or returns None
\* (pc = "drained"); the calls stop with the first None.
TokensCall ==
    /\ pc = "tokens"
    /\ LET r == TokensNext(line) IN
       /\ line' = r.t
       /\ IF r.panic
          THEN Fail(Panicked) /\ UNCHANGED words
          ELSE IF r.word = <<>>
          THEN pc' = "drained" /\ UNCHANGED <<words, result>>
          ELSE /\ words' = Append(words, r.word[1])
               /\ UNCHANGED <<pc, result>>
    /\ UNCHANGED <<netrc, current_machine, lnum, input, eof, item, arg, name, cmds>>

NextTokens == TokensCall

SpecTokens == InitTokens /\ [][NextTokens]_vars

\* The text t without its first k words and the whitespace before them.
RECURSIVE DropWords(_, _)
DropWords(t, k) ==
    IF k = 0 THEN t
    ELSE LET u == SubSeq(t, Len(TakeWhileWs(t)) + 1, Len(t))
         IN DropWords(SubSeq(u, Len(TakeWhileNotWs(u)) + 1, Len(u)), k - 1)

\* ------------------------------------------------------------------ C14

\* C14: on every line, lines with characters of more than one byte
\* included, no call of Tokens::next fails; after each call the cursor is a
\* character boundary within the buffer, the words returned so far are the
\* first maximal runs of non-whitespace characters of the line, in order,
\* after a call that returned a word remaining() is the text after that
\* word, and when None is returned the words are all the runs of the line.
C14_TokensNext ==
    /\ pc # "panic"
    /\ TokensRemaining(line).ok
    /\ Len(words) <= Len(WordsOf(line.buf))
    /\ words = SubSeq(WordsOf(line.buf), 1, Len(words))
    /\ (pc = "tokens" /\ words # <<>>) =>
          TokensRemaining(line).s = DropWords(line.buf, Len(words))
    /\ pc = "drained" => words = WordsOf(line.buf)

\* The same, on the lines whose characters all take one byte.
TokensNextOnOneByteLines ==
    (\A i \in 1..Len(line.buf) : Width(line.buf[i]) = 1) => C14_TokensNext

\* ------------------------------------------------------------------ C15

\* The words of one line that are to be cut from it, ws being the words of
\* the line and st what the dispatcher waits for at its start: a keyword
\* ("kw"), the argument of one ("arg") or the name of a macro ("name");
\* after the name of a macro the rest of the line belongs to the body.
RECURSIVE LineLexed(_, _)
LineLexed(ws, st) ==
    IF ws = <<>> THEN [w |-> <<>>, st |-> st]
    ELSE IF st = "name" THEN [w |-> <<Head(ws)>>, st |-> "body"]
    ELSE LET st2 == IF st = "arg" THEN "kw"
                    ELSE IF Head(ws) = KwMacdef THEN "name"
                    ELSE IF Head(ws) \in {KwMachine} \cup FieldKeywords THEN "arg"
                    ELSE "kw"
             r == LineLexed(Tail(ws), st2)
         IN [w |-> <<Head(ws)>> \o r.w, st |-> r.st]

\* The words of the lines ls outside the macro bodies: a body runs from
\* behind the name of the macro to the first line of at most one byte.
RECURSIVE LexedFrom(_, _)
LexedFrom(ls, st) ==
    IF ls = <<>> THEN <<>>
    ELSE IF st = "body"
    THEN LexedFrom(Tail(ls), IF ByteLen(Head(ls)) <= 1 THEN "kw" ELSE "body")
    ELSE LET r == LineLexed(WordsOf(Head(ls)), st)
         IN r.w \o LexedFrom(Tail(ls), r.st)

LexedWords == LexedFrom(input, "kw")

\* C15: no word of a macro body is cut from its line, and so none is
\* dispatched: the words the tokenizer has returned are, in order, words of
\* the input outside the macro bodies, and all of them when the parse ends
\* with Ok, so that the first word after a body is the first word of the
\* line behind its blank line; while a body is captured the tokenizer is
\* empty, and a word that is dispatched is the last one returned.
C15_MacroBodyNotDispatched ==
    /\ Len(words) <= Len(LexedWords)
    /\ words = SubSeq(LexedWords, 1, Len(words))
    /\ pc = "done" => words = LexedWords
    /\ pc = "subcommands" => line = TokensEmpty
    /\ pc = "entry" => item = words[Len(words)]

\* A macro body with the lines machine h and the blank line, and a default
\* entry behind it: no host, the default with its account.
C15_Witness ==
    /\ pc = "done"
    /\ Len(input) = 4
    /\ input[1] = KwMacdef \o Sp \o <<"m">> \o Sp \o <<"x">> \o NL
    /\ input[2] = KwMachine \o Sp \o <<"h">> \o NL
    /\ input[3] = NL
    /\ netrc.hosts = <<>>
    /\ netrc.default = <<[DefaultMachine EXCEPT !.account = << <<"a">> >>]>>
    /\ Len(netrc.macros) = 1
    /\ words = <<KwMacdef, <<"m">>, KwDefault, KwAccount, <<"a">> >>

\* ------------------------------------------------------------------ C16

\* The step of the default arm.
DefaultStep == pc = "entry" /\ item = KwDefault

\* C16: every dispatched default keyword sets the default Machine to one
\* with no field set, whatever it held, and makes it the target; any other
\* step that changes the default Machine sets one field of it, the one of
\* the keyword in hand, while the default is the target; the aggregate
\* never holds more than one default Machine.
C16_DefaultIsFresh ==
    /\ [](Len(netrc.default) <= 1)
    /\ [][ /\ DefaultStep =>
                /\ netrc'.default = <<DefaultMachine>>
                /\ current_machine' = RefDefault
                /\ netrc'.hosts = netrc.hosts
                /\ netrc'.macros = netrc.macros
           /\ (~DefaultStep /\ netrc'.default # netrc.default) =>
                /\ current_machine = RefDefault
                /\ pc = "body"
                /\ item \in FieldKeywords
                /\ netrc'.default = <<FieldSet(netrc.default[1], item, arg)>> ]_vars

\* default account a / login l password p / default account a, parsed to
\* the end: the login and password of the first default entry are gone.
C16_Witness ==
    /\ pc = "done"
    /\ Len(input) = 3
    /\ input[1] = KwDefault \o Tab \o KwAccount \o Sp \o <<"a">> \o NL
    /\ OnLine(KwLogin, input[2])
    /\ input[3] = input[1]
    /\ netrc.default = <<[DefaultMachine EXCEPT !.account = << <<"a">> >>]>>

\* ------------------------------------------------------------------ C17

\* Netrc::parse runs on until it returns: a step that can be taken is taken.
FairSpec == Spec /\ WF_vars(Next)

\* The tokenizer has no word left, so that next_word reads a line.
LineDrained == LET r == TokensNext(line) IN ~r.panic /\ r.word = <<>>

\* C17: on every input (all are finite) the parse comes to its end; it
\* ends with Ok only by a read of zero bytes made while a keyword is
\* awaited, and such a read always ends it with Ok, the aggregate being
\* empty when the input has no word; a read of zero bytes made while an
\* argument is awaited always ends it with "Unexpected end of file"; and a
\* read of zero bytes inside a macro body closes the macro and leaves the
\* dispatcher waiting for a keyword at the end of the input.
C17_Termination ==
    /\ <>(pc \in {"done", "err"})
    /\ []((pc = "done" /\ InputWords = <<>>) => netrc = DefaultNetrc)
    /\ [][ /\ pc' = "done" =>
                 (pc = "parse" /\ LineDrained /\ input' = input /\ eof')
           /\ (pc = "parse" /\ LineDrained /\ input' = input /\ eof') =>
                 (pc' = "done" /\ result' = OkResult /\ netrc' = netrc)
           /\ (pc = "arg" /\ LineDrained /\ input' = input /\ eof') =>
                 (pc' = "err" /\ result' = EofError(Len(input)))
           /\ (pc = "subcommands" /\ input' = input /\ eof') =>
                 /\ pc' = "parse"
                 /\ line' = TokensEmpty
                 /\ Len(netrc'.macros) = Len(netrc.macros) + 1 ]_vars

\* The input ends inside the body of a macro and the parse ends with Ok.
C17_Witness ==
    /\ pc = "done"
    /\ result = OkResult
    /\ Len(input) = 2
    /\ input[1] = KwMacdef \o Sp \o <<"m">> \o Sp \o <<"x">> \o NL
    /\ input[2] = KwLogin
    /\ Len(netrc.macros) = 1

\* ------------------------------------------------------------------ C18

\* C18: the current target is always valid: a Default reference goes with a
\* default Machine that is present, a Host(i) reference has i =
\* len(hosts) - 1, the index of the host appended last; so find_machine
\* indexes within hosts, and it returns None for the reference Nothing and
\* for no other.
C18_TargetIsValid ==
    /\ current_machine.tag \in {"Nothing", "Default", "Host"}
    /\ current_machine.tag = "Default" => Len(netrc.default) = 1
    /\ current_machine.tag = "Host" =>
          /\ current_machine.n = Len(netrc.hosts) - 1
          /\ current_machine.n + 1 \in DOMAIN netrc.hosts
    /\ FindMachine(netrc, current_machine) = <<>> <=> current_machine = RefNothing

\* The second of two hosts is the target while a default Machine is
\* present.
C18_Witness ==
    /\ Len(netrc.hosts) = 2
    /\ netrc.default # <<>>
    /\ current_machine = RefHost(1)
    /\ FindMachine(netrc, current_machine) = <<netrc.hosts[2].machine>>

\* ------------------------------------------------------------------ C19

\* C19: a word that next_word_or_err hands to an arm of parse_entry is the
\* argument of the keyword in hand and nothing else, whatever it spells: it
\* is not dispatched (a word is dispatched only when a keyword is awaited),
\* the keyword in hand stays, and the arm treats it as it treats any word:
\* machine appends a host of that name and touches neither the default nor
\* the macros, login, password and account store it in the target, which
\* stays, port fails with "Unable to parse port number" naming it, macdef
\* takes it for the name of the macro.
C19_ArgumentNotDispatched ==
    [][ /\ pc' = "entry" => pc = "parse"
        /\ (pc = "arg" /\ pc' = "body") =>
              /\ item' = item
              /\ arg' = words'[Len(words')]
              /\ UNCHANGED <<netrc, current_machine>>
        /\ pc = "body" =>
              /\ item' = item
              /\ item = KwMachine =>
                    /\ netrc' = [netrc EXCEPT !.hosts =
                                     Append(netrc.hosts, Host(arg, DefaultMachine))]
                    /\ current_machine' = RefHost(Len(netrc.hosts))
              /\ item \in {KwLogin, KwPassword, KwAccount} =>
                    /\ current_machine' = current_machine
                    /\ FindMachine(netrc', current_machine) =
                          <<FieldSet(FindMachine(netrc, current_machine)[1], item, arg)>>
              /\ (item = KwPort /\ arg \in Keywords) =>
                    /\ result' = ParseError("Unable to parse port number {q}", arg,
                                            Len(input))
                    /\ netrc' = netrc
              /\ item = KwMacdef =>
                    /\ name' = arg
                    /\ netrc' = netrc ]_vars

\* machine default login machine, parsed to the end: one host named
\* default whose login is machine, no default Machine, the host still the
\* target.
C19_Witness ==
    /\ pc = "done"
    /\ words = <<KwMachine, KwDefault, KwLogin, KwMachine>>
    /\ netrc = [DefaultNetrc EXCEPT !.hosts =
                  <<Host(KwDefault, [DefaultMachine EXCEPT !.login = KwMachine])>>]
    /\ current_machine = RefHost(0)

\* ------------------------------------------------------------------ C20

\* What a sequence of words ws is to parse to, read by the table of the
\* keywords alone, with the aggregate n and the target ref so far: the
\* aggregate and the result; an error has no line number here, and macdef
\* is TRUE when a macdef keyword is dispatched (the reading stops there).
RECURSIVE WordsParse(_, _, _)
WordsParse(ws, n, ref) ==
    LET out(r, md) == [netrc |-> n, result |-> r, macdef |-> md]
        err(fmt, w) == out([kind |-> "Parse", fmt |-> fmt, arg |-> w], FALSE)
        kw == Head(ws)
        rest == Tail(ws)
        target == IF ref.tag = "Default" THEN n.default[1]
                  ELSE n.hosts[ref.n + 1].machine
        written(m) == IF ref.tag = "Default" THEN [n EXCEPT !.default = <<m>>]
                      ELSE [n EXCEPT !.hosts[ref.n + 1].machine = m]
    IN
    IF ws = <<>> THEN out([kind |-> "Ok", fmt |-> "", arg |-> <<>>], FALSE)
    ELSE IF kw = KwDefault
    THEN WordsParse(rest, [n EXCEPT !.default = <<DefaultMachine>>], RefDefault)
    ELSE IF kw = KwMacdef THEN out(NoResult, TRUE)
    ELSE IF kw \notin Keywords THEN err("Unknown entry {q}", kw)
    ELSE IF kw \in FieldKeywords /\ ref.tag = "Nothing"
    THEN err("No machine defined for {}", kw)
    ELSE IF rest = <<>> THEN err("Unexpected end of file", <<>>)
    ELSE IF kw = KwMachine
    THEN WordsParse(Tail(rest),
                    [n EXCEPT !.hosts = Append(n.hosts, Host(Head(rest), DefaultMachine))],
                    RefHost(Len(n.hosts)))
    ELSE IF kw = KwPort /\ ~DenotesPort(Head(rest))
    THEN err("Unable to parse port number {q}", Head(rest))
    ELSE WordsParse(Tail(rest), written(FieldSet(target, kw, Head(rest))), ref)

\* C20: when the parse has ended, not by a read error, on an input in which
\* no macdef keyword is dispatched, its outcome is the one the words of the
\* input have by themselves, whatever whitespace, line breaks and blank
\* lines stand between them: Ok with the same aggregate, or the same error
\* message (the line number apart).
C20_LayoutIndependent ==
    LET expected == WordsParse(InputWords, DefaultNetrc, RefNothing) IN
    (pc \in {"done", "err", "panic"} /\ result.kind # "Io" /\ ~expected.macdef) =>
       /\ result.kind = expected.result.kind
       /\ result.fmt = expected.result.fmt
       /\ result.arg = expected.result.arg
       /\ result.kind = "Ok" => netrc = expected.netrc

\* machine h / blank / port / 65535, parsed to the end: the host with its
\* port, as for machine h / port 65535.
C20_Witness ==
    /\ pc = "done"
    /\ input = << KwMachine \o Sp \o <<"h">> \o NL, NL, KwPort \o NL,
                  <<"6", "5", "5", "3", "5">> \o NL >>
    /\ netrc = [DefaultNetrc EXCEPT !.hosts =
                  <<Host(<<"h">>, [DefaultMachine EXCEPT !.port = <<65535>>])>>]
    /\ netrc = WordsParse(<<KwMachine, <<"h">>, KwPort, <<"6", "5", "5", "3", "5">> >>,
                          DefaultNetrc, RefNothing).netrc
====
